---- MODULE Spec2Model ----
(***************************************************************************)
(* Day-document identity and mutation subsystem of the meal planner        *)
(* (src/src/lib/firestore.ts): key resolution, single-document updates,    *)
(* attendance and responsibility ledgers, batched bulk assignment and the  *)
(* month-rollover migration, over a keyed document store.                  *)
(*                                                                         *)
(* Strings are sequences of one-character strings, so that the regular     *)
(* expression test, split, parseInt, toString and padStart of the source   *)
(* are computed character by character.                                    *)
(***************************************************************************)
EXTENDS Integers, Sequences, FiniteSets, TLC

VARIABLES
    store,   \* the 'dailymenu' collection: document key -> document data
    clock,   \* the store's clock; serverTimestamp() is the tick of the write
    env,     \* the host: [year, month (0-indexed), tz (sign of the UTC offset)]
    last,    \* the most recent operation: name, arguments, result, store before
    prev,    \* the operation before it (kept by the specifications that need it)
    q        \* the calls in progress: the key-resolution query of SpecKey, the
             \* two toggles of SpecRace, the migration and the lookup of
             \* SpecMigRace

vars == <<store, clock, env, last, prev, q>>

(***************************************************************************)
(* Bounds of the model.                                                    *)
(***************************************************************************)
MaxOps == 2        \* operations per behaviour of Spec
MaxMigOps == 3     \* operations per behaviour of SpecMig
MaxTogOps == 2     \* operations per behaviour of SpecToggle

(***************************************************************************)
(* Strings and numbers as JavaScript computes them.                        *)
(***************************************************************************)
DigitChars == <<"0", "1", "2", "3", "4", "5", "6", "7", "8", "9">>

IsDigit(c) == \E i \in 1..10 : DigitChars[i] = c

DigitVal(c) == (CHOOSE i \in 1..10 : DigitChars[i] = c) - 1

AllDigits(s) == \A i \in 1..Len(s) : IsDigit(s[i])

\* Number.NaN, kept apart from every number the model computes
NaN == 0 - 1

RECURSIVE DecValue(_, _)
DecValue(s, n) == IF n = 0 THEN 0 ELSE DecValue(s, n - 1) * 10 + DigitVal(s[n])

\* the length of the longest prefix of s made of decimal digits
DigitPrefix(s) ==
    IF AllDigits(s) THEN Len(s)
    ELSE (CHOOSE i \in 1..Len(s) : ~IsDigit(s[i]) /\ \A j \in 1..(i - 1) : IsDigit(s[j])) - 1

\* parseInt(s, 10): the leading decimal digits, NaN when there is none
ParseInt(s) == IF DigitPrefix(s) = 0 THEN NaN ELSE DecValue(s, DigitPrefix(s))

\* Number.prototype.toString()
RECURSIVE NumToString(_)
NumToString(n) ==
    IF n = NaN THEN <<"N", "a", "N">>
    ELSE IF n < 10 THEN <<DigitChars[n + 1]>>
    ELSE NumToString(n \div 10) \o <<DigitChars[(n % 10) + 1]>>

\* a resolver that forgets to pad
PadStart_Unpadded(s, width) == s

\* String.prototype.padStart(2, '0')
RECURSIVE PadStart(_, _)
PadStart(s, width) == IF Len(s) >= width THEN s ELSE PadStart(<<"0">> \o s, width)

\* String.prototype.split(sep) for a one-character separator
RECURSIVE Split(_, _)
Split(s, sep) ==
    IF \A i \in 1..Len(s) : s[i] # sep THEN <<s>>
    ELSE LET i == CHOOSE i \in 1..Len(s) : s[i] = sep /\ \A j \in 1..(i - 1) : s[j] # sep
         IN  <<SubSeq(s, 1, i - 1)>> \o Split(SubSeq(s, i + 1, Len(s)), sep)

(***************************************************************************)
(* Calendar arithmetic of the JavaScript Date object.  A date is a record  *)
(* [y, m, d] with m in 1..12; Invalid stands for an Invalid Date.          *)
(***************************************************************************)
Invalid == [y |-> 0, m |-> 0, d |-> 0]

IsLeap(y) == (y % 4 = 0 /\ y % 100 # 0) \/ y % 400 = 0

DaysIn(y, m) ==
    IF m = 2 THEN (IF IsLeap(y) THEN 29 ELSE 28)
    ELSE IF m \in {4, 6, 9, 11} THEN 30 ELSE 31

\* new Date(year, monthIndex, day) for a day in 1..31: a day past the end of
\* the month rolls into the next month; a NaN day gives an Invalid Date
MakeDate(year, monthIndex, day) ==
    IF day = NaN THEN Invalid
    ELSE LET m == monthIndex + 1
         IN  IF day <= DaysIn(year, m) THEN [y |-> year, m |-> m, d |-> day]
             ELSE IF m = 12 THEN [y |-> year + 1, m |-> 1, d |-> day - DaysIn(year, m)]
             ELSE [y |-> year, m |-> m + 1, d |-> day - DaysIn(year, m)]

PrevDay(date) ==
    IF date.d > 1 THEN [date EXCEPT !.d = date.d - 1]
    ELSE IF date.m > 1 THEN [y |-> date.y, m |-> date.m - 1, d |-> DaysIn(date.y, date.m - 1)]
    ELSE [y |-> date.y - 1, m |-> 12, d |-> 31]

\* Date.prototype.getDay(): 0 is Sunday
DayOfWeekIndex(date) ==
    LET t  == <<0, 3, 2, 5, 0, 3, 5, 1, 4, 6, 2, 4>>
        yy == IF date.m < 3 THEN date.y - 1 ELSE date.y
    IN  (yy + (yy \div 4) - (yy \div 100) + (yy \div 400) + t[date.m] + date.d) % 7

FormatISO(date) ==
    PadStart(NumToString(date.y), 4) \o <<"-">> \o PadStart(NumToString(date.m), 2)
        \o <<"-">> \o PadStart(NumToString(date.d), 2)

\* date.toISOString().split('T')[0] of a local midnight: the UTC calendar day,
\* which is the day before wherever local time is ahead of UTC
ToISODate(date, tz) == FormatISO(IF tz > 0 THEN PrevDay(date) ELSE date)

IsISOShape(s) ==
    /\ Len(s) = 10
    /\ s[5] = "-" /\ s[8] = "-"
    /\ \A i \in {1, 2, 3, 4, 6, 7, 9, 10} : IsDigit(s[i])

\* new Date(s + 'T00:00:00'): a date-time without offset is local time
ParseLocalDate(s) ==
    IF ~IsISOShape(s) THEN Invalid
    ELSE LET y == DecValue(SubSeq(s, 1, 4), 4)
             m == DecValue(SubSeq(s, 6, 7), 2)
             d == DecValue(SubSeq(s, 9, 10), 2)
         IN  IF m \in 1..12 /\ d \in 1..DaysIn(y, m) THEN [y |-> y, m |-> m, d |-> d]
             ELSE Invalid

\* new Date(s).getDate() for a string with other than two hyphens: the ISO
\* forms "YYYY" and "YYYY-MM" are UTC midnight of the first day, read back
\* in local time; the other strings the model draws are Invalid Dates
ParseDateDay(s, tz) ==
    LET first(y, m) == IF tz < 0 THEN PrevDay([y |-> y, m |-> m, d |-> 1]).d ELSE 1
    IN  IF Len(s) = 4 /\ AllDigits(s) THEN first(DecValue(s, 4), 1)
        ELSE IF /\ Len(s) = 7 /\ s[5] = "-"
                /\ AllDigits(SubSeq(s, 1, 4)) /\ AllDigits(SubSeq(s, 6, 7))
                /\ DecValue(SubSeq(s, 6, 7), 2) \in 1..12
             THEN first(DecValue(SubSeq(s, 1, 4), 4), DecValue(SubSeq(s, 6, 7), 2))
        ELSE NaN

(***************************************************************************)
(* KeyResolver                                                             *)
(***************************************************************************)
getDayId(dateString, tz) ==
    IF Len(dateString) \in {1, 2} /\ AllDigits(dateString)
    THEN PadStart(NumToString(ParseInt(dateString)), 2)
    ELSE LET parts == Split(dateString, "-")
         IN  IF Len(parts) = 3
             THEN PadStart(NumToString(ParseInt(parts[3])), 2)
             ELSE IF ParseDateDay(dateString, tz) # NaN
                  THEN PadStart(NumToString(ParseDateDay(dateString, tz)), 2)
                  ELSE dateString

(***************************************************************************)
(* Values of the data model.  A document, an attendance map, a per-user    *)
(* record and a responsibility map are partial maps: a field that is       *)
(* absent is outside the DOMAIN.                                           *)
(***************************************************************************)
Users == {"u1", "u2"}

MealTypes == {"breakfast", "lunch", "dinner"}

RespSlots == {"breakfastLunchId", "dinnerId"}

\* JavaScript null, and the empty string
Null == "<null>"

EmptyString == ""

EmptyMap == [x \in {} |-> x]

\* { ...base, ...upd }
Merge(base, upd) ==
    [f \in DOMAIN base \cup DOMAIN upd |-> IF f \in DOMAIN upd THEN upd[f] ELSE base[f]]

Without(m, fields) == [f \in DOMAIN m \ fields |-> m[f]]

\* an assignment that stores the argument as it came
OrElse_Keep(a, b) == a

\* a || b for a string-or-null a
OrElse(a, b) == IF a = Null \/ a = EmptyString THEN b ELSE a

(***************************************************************************)
(* The document store client (firebase/firestore): getDoc, updateDoc,      *)
(* getDocs and writeBatch as the SDK documents them.  A field path is a    *)
(* sequence of field names; update data maps field paths to values.        *)
(***************************************************************************)
exists(st, key) == key \in DOMAIN st

\* the field named by a dotted path is set, its parent map created if absent
SetPath(data, path, value) ==
    IF Len(path) = 1 THEN Merge(data, path[1] :> value)
    ELSE LET parent == IF path[1] \in DOMAIN data THEN data[path[1]] ELSE EmptyMap
         IN  Merge(data, path[1] :> Merge(parent, path[2] :> value))

RECURSIVE ApplyFields(_, _)
ApplyFields(data, fields) ==
    IF DOMAIN fields = {} THEN data
    ELSE LET p == CHOOSE p \in DOMAIN fields : TRUE
         IN  ApplyFields(SetPath(data, p, fields[p]), Without(fields, {p}))

\* an object literal of top-level fields as update data
TopLevel(obj) == [p \in {<<f>> : f \in DOMAIN obj} |-> obj[p[1]]]

\* a write that is tried again after a rejection and then goes through
updateDoc_Retried(st, key, fields, rejected) ==
    IF ~exists(st, key) THEN [ok |-> FALSE, store |-> st]
    ELSE [ok |-> TRUE, store |-> [st EXCEPT ![key] = ApplyFields(st[key], fields)]]

\* updateDoc(ref, fields): rejects when the store rejects the write or the
\* document does not exist, and then writes nothing
updateDoc(st, key, fields, rejected) ==
    IF rejected \/ ~exists(st, key) THEN [ok |-> FALSE, store |-> st]
    ELSE [ok |-> TRUE, store |-> [st EXCEPT ![key] = ApplyFields(st[key], fields)]]

\* one write of a batch applied to the store; ok is FALSE when an update
\* names a document that does not exist
ApplyWrite(st, w) ==
    IF w.op = "update"
    THEN IF exists(st, w.key)
         THEN [ok |-> TRUE, store |-> [st EXCEPT ![w.key] = ApplyFields(st[w.key], w.data)]]
         ELSE [ok |-> FALSE, store |-> st]
    ELSE IF w.op = "delete"
    THEN [ok |-> TRUE, store |-> Without(st, {w.key})]
    ELSE [ok |-> TRUE, store |-> Merge(st, w.key :> w.data)]

RECURSIVE ApplyWrites(_, _)
ApplyWrites(st, batch) ==
    IF batch = <<>> THEN [ok |-> TRUE, store |-> st]
    ELSE LET r == ApplyWrite(st, Head(batch))
         IN  IF r.ok THEN ApplyWrites(r.store, Tail(batch)) ELSE r

\* batch.commit(): the writes take effect in order and all together, or the
\* commit rejects and none does; a batch without writes never reaches the store
commit(st, batch, rejected) ==
    LET r == ApplyWrites(st, batch)
    IN  IF batch = <<>> THEN [ok |-> TRUE, store |-> st]
        ELSE IF rejected \/ ~r.ok THEN [ok |-> FALSE, store |-> st]
        ELSE [ok |-> TRUE, store |-> r.store]

\* the order of getDocs on a collection: ascending document id
CharOrder == <<"-", "0", "1", "2", "3", "4", "5", "6", "7", "8", "9", ":", "N", "T", "a", "x">>

CharCode(c) == CHOOSE i \in 1..Len(CharOrder) : CharOrder[i] = c

RECURSIVE StrLess(_, _)
StrLess(a, b) ==
    IF a = <<>> THEN b # <<>>
    ELSE IF b = <<>> THEN FALSE
    ELSE IF Head(a) # Head(b) THEN CharCode(Head(a)) < CharCode(Head(b))
    ELSE StrLess(Tail(a), Tail(b))

RECURSIVE SortedKeys(_)
SortedKeys(keys) ==
    IF keys = {} THEN <<>>
    ELSE LET k == CHOOSE k \in keys : \A o \in keys \ {k} : StrLess(k, o)
         IN  <<k>> \o SortedKeys(keys \ {k})

(***************************************************************************)
(* TimestampNormalizer                                                     *)
(***************************************************************************)
\* a stored instant as it is, the current time when the field is missing
resolveTimestamp(data, field, now) == IF field \in DOMAIN data THEN data[field] ELSE now

\* { id: snap.id, ...data, created_at, updated_at }
AsMealDocument(id, data, now) ==
    Merge(Merge("id" :> id, data),
          [created_at |-> resolveTimestamp(data, "created_at", now),
           updated_at |-> resolveTimestamp(data, "updated_at", now)])

(***************************************************************************)
(* DayDocumentStore.  A handler takes the store and its inputs and gives   *)
(* [store, ret]: the store it leaves and the value it returns.  fault      *)
(* names the store call of the handler that the store rejects, if any.     *)
(***************************************************************************)
NotFound == [found |-> FALSE]

Found(id, data, now) == [found |-> TRUE, doc |-> AsMealDocument(id, data, now)]

\* a lookup that never tries the unpadded key
getMealByDate_NoFallback(st, date, tz, now, fault) ==
    LET docId == getDayId(date, tz)
    IN  IF fault = "read" THEN NotFound
        ELSE IF exists(st, docId) THEN Found(docId, st[docId], now)
        ELSE NotFound

getMealByDate(st, date, tz, now, fault) ==
    LET docId      == getDayId(date, tz)
        unpaddedId == NumToString(ParseInt(docId))
    IN  IF fault = "read" THEN NotFound
        ELSE IF exists(st, docId) THEN Found(docId, st[docId], now)
        ELSE IF unpaddedId # docId
             THEN IF fault = "read2" THEN NotFound
                  ELSE IF exists(st, unpaddedId) THEN Found(unpaddedId, st[unpaddedId], now)
                  ELSE NotFound
        ELSE NotFound

\* an update written as setDoc(ref, data, { merge: true }): it creates the
\* document when there is none
updateMeal_Upsert(st, mealId, updates, tz, now, fault) ==
    LET docId == getDayId(mealId, tz)
        base  == IF exists(st, docId) THEN st[docId] ELSE EmptyMap
    IN  IF fault = "write" THEN [store |-> st, ret |-> FALSE]
        ELSE [store |-> Merge(st, docId :> Merge(base, Merge(updates, [updated_at |-> now]))),
              ret |-> TRUE]

\* an update that forgets the updated_at stamp
updateMeal_NoStamp(st, mealId, updates, tz, now, fault) ==
    LET w == updateDoc(st, getDayId(mealId, tz), TopLevel(updates), fault = "write")
    IN  [store |-> w.store, ret |-> w.ok]

updateMeal(st, mealId, updates, tz, now, fault) ==
    LET docId == getDayId(mealId, tz)
        w     == updateDoc(st, docId, TopLevel(Merge(updates, [updated_at |-> now])),
                           fault = "write")
    IN  [store |-> w.store, ret |-> w.ok]

(***************************************************************************)
(* AttendanceLedger                                                        *)
(***************************************************************************)
\* a default record that counts a user without a record as skipping
DefaultAttendance_AllSkipping == [breakfast |-> FALSE, lunch |-> FALSE, dinner |-> FALSE]

DefaultAttendance == [breakfast |-> TRUE, lunch |-> TRUE, dinner |-> TRUE]

\* a toggle that stores isSkipping itself instead of its negation
toggleMealAttendance_Inverted(st, mealId, mealType, userId, isSkipping, tz, fault) ==
    LET docId == getDayId(mealId, tz)
    IN  IF fault = "read" \/ ~exists(st, docId) THEN [store |-> st, ret |-> FALSE]
        ELSE LET data              == st[docId]
                 currentAttendance == IF "attendance" \in DOMAIN data
                                      THEN data.attendance ELSE EmptyMap
                 userAttendance    == IF userId \in DOMAIN currentAttendance
                                      THEN currentAttendance[userId]
                                      ELSE [breakfast |-> TRUE, lunch |-> TRUE, dinner |-> TRUE]
                 toggled           == Merge(userAttendance, mealType :> isSkipping)
                 w == updateDoc(st, docId, <<"attendance", userId>> :> toggled,
                                fault = "write")
             IN  [store |-> w.store, ret |-> w.ok]

toggleMealAttendance(st, mealId, mealType, userId, isSkipping, tz, fault) ==
    LET docId == getDayId(mealId, tz)
    IN  IF fault = "read" \/ ~exists(st, docId) THEN [store |-> st, ret |-> FALSE]
        ELSE LET data              == st[docId]
                 currentAttendance == IF "attendance" \in DOMAIN data
                                      THEN data.attendance ELSE EmptyMap
                 userAttendance    == IF userId \in DOMAIN currentAttendance
                                      THEN currentAttendance[userId]
                                      ELSE DefaultAttendance
                 toggled           == Merge(userAttendance, mealType :> ~isSkipping)
                 w == updateDoc(st, docId, <<"attendance", userId>> :> toggled,
                                fault = "write")
             IN  [store |-> w.store, ret |-> w.ok]

(***************************************************************************)
(* ResponsibilityLedger                                                    *)
(***************************************************************************)
updateMealResponsibility(st, mealId, slot, userId, tz, fault) ==
    LET docId == getDayId(mealId, tz)
        w     == updateDoc(st, docId, <<"responsibility", slot>> :> OrElse(userId, Null),
                           fault = "write")
    IN  [store |-> w.store, ret |-> w.ok]

\* an update object that always names both slots, an omitted one as null
BulkUpdateData_AllSlots(updates) ==
    [p \in {<<"responsibility", f>> : f \in RespSlots}
        |-> IF p[2] \in DOMAIN updates THEN OrElse(updates[p[2]], Null) ELSE Null]

\* the update object built for every date: the fields of updates that are
\* not undefined, an empty value stored as null
BulkUpdateData(updates) ==
    [p \in {<<"responsibility", f>> : f \in DOMAIN updates \cap RespSlots}
        |-> OrElse(updates[p[2]], Null)]

RECURSIVE BulkWrites(_, _, _)
BulkWrites(dates, updates, tz) ==
    IF dates = <<>> THEN <<>>
    ELSE LET updateData == BulkUpdateData(updates)
             this == IF DOMAIN updateData # {}
                     THEN <<[op |-> "update", key |-> getDayId(Head(dates), tz),
                             data |-> updateData]>>
                     ELSE <<>>
         IN  this \o BulkWrites(Tail(dates), updates, tz)

\* a bulk assignment that writes the documents one by one, not in a batch
bulkUpdateMealResponsibility_Sequential(st, dates, updates, tz, fault) ==
    IF Len(dates) = 0 THEN [store |-> st, ret |-> [success |-> TRUE, updated |-> 0]]
    ELSE LET batch == BulkWrites(dates, updates, tz)
             c     == ApplyWrites(st, batch)
         IN  IF c.ok /\ fault # "write"
             THEN [store |-> c.store, ret |-> [success |-> TRUE, updated |-> Len(batch)]]
             ELSE [store |-> c.store,
                   ret |-> [success |-> FALSE, updated |-> 0, error |-> "commit rejected"]]

\* a bulk assignment that reports the count it had reached when the commit
\* failed
bulkUpdateMealResponsibility_CountsAttempts(st, dates, updates, tz, fault) ==
    IF Len(dates) = 0 THEN [store |-> st, ret |-> [success |-> TRUE, updated |-> 0]]
    ELSE LET batch == BulkWrites(dates, updates, tz)
             c     == commit(st, batch, fault = "write")
         IN  IF c.ok
             THEN [store |-> c.store, ret |-> [success |-> TRUE, updated |-> Len(batch)]]
             ELSE [store |-> st,
                   ret |-> [success |-> FALSE, updated |-> Len(batch),
                            error |-> "commit rejected"]]

\* a bulk assignment that treats an empty list as a failure, as the
\* migration treats an empty collection
bulkUpdateMealResponsibility_EmptyFails(st, dates, updates, tz, fault) ==
    IF Len(dates) = 0
    THEN [store |-> st,
          ret |-> [success |-> FALSE, updated |-> 0, error |-> "no dates"]]
    ELSE LET batch == BulkWrites(dates, updates, tz)
             c     == commit(st, batch, fault = "write")
         IN  IF c.ok
             THEN [store |-> c.store, ret |-> [success |-> TRUE, updated |-> Len(batch)]]
             ELSE [store |-> st,
                   ret |-> [success |-> FALSE, updated |-> 0, error |-> "commit rejected"]]

bulkUpdateMealResponsibility(st, dates, updates, tz, fault) ==
    IF Len(dates) = 0 THEN [store |-> st, ret |-> [success |-> TRUE, updated |-> 0]]
    ELSE LET batch == BulkWrites(dates, updates, tz)
             c     == commit(st, batch, fault = "write")
         IN  IF c.ok
             THEN [store |-> c.store, ret |-> [success |-> TRUE, updated |-> Len(batch)]]
             ELSE [store |-> st,
                   ret |-> [success |-> FALSE, updated |-> 0, error |-> "commit rejected"]]

(***************************************************************************)
(* listAll and RolloverMigrator                                            *)
(***************************************************************************)
\* every document in ascending key order; an empty list when the scan is
\* rejected (the error is caught inside getAllMeals)
getAllMeals(st, now, fault) ==
    IF fault = "read" THEN <<>>
    ELSE LET keys == SortedKeys(DOMAIN st)
         IN  [i \in 1..Len(keys) |-> AsMealDocument(keys[i], st[keys[i]], now)]

daysOfWeek ==
    <<"Sunday", "Monday", "Tuesday", "Wednesday", "Thursday", "Friday", "Saturday">>

\* the day of the month of the document's stored date, NaN when the date
\* is missing or does not parse
MealDayOfMonth(meal) ==
    LET oldDate == IF "date" \in DOMAIN meal THEN ParseLocalDate(meal.date) ELSE Invalid
    IN  IF oldDate = Invalid THEN NaN ELSE oldDate.d

\* a loop body that rewrites every document under the key it already has
MigrateWrites_InPlace(meal, currentYear, currentMonth, tz, now) ==
    LET dayOfMonth == MealDayOfMonth(meal)
        newDate    == MakeDate(currentYear, currentMonth, dayOfMonth)
    IN  IF newDate = Invalid THEN <<>>
        ELSE <<[op |-> "update", key |-> meal.id,
                data |-> TopLevel(
                    Merge(Without(meal, {"id", "created_at", "updated_at"}),
                          [date        |-> ToISODate(newDate, tz),
                           day_of_week |-> daysOfWeek[DayOfWeekIndex(newDate) + 1],
                           updated_at  |-> now,
                           created_at  |-> meal.created_at]))]>>

\* a loop body that forgets to pad the new document id
MigrateWrites_Unpadded(meal, currentYear, currentMonth, tz, now) ==
    LET dayOfMonth == MealDayOfMonth(meal)
        newDate    == MakeDate(currentYear, currentMonth, dayOfMonth)
    IN  IF newDate = Invalid THEN <<>>
        ELSE LET newDocId  == NumToString(dayOfMonth)
                 cleanData ==
                     Merge(Without(meal, {"id", "created_at", "updated_at"}),
                           [date        |-> ToISODate(newDate, tz),
                            day_of_week |-> daysOfWeek[DayOfWeekIndex(newDate) + 1],
                            updated_at  |-> now,
                            created_at  |-> meal.created_at])
             IN  IF meal.id = newDocId
                 THEN <<[op |-> "update", key |-> newDocId, data |-> TopLevel(cleanData)]>>
                 ELSE <<[op |-> "delete", key |-> meal.id],
                        [op |-> "set", key |-> newDocId, data |-> cleanData]>>

\* a loop body that writes the new key and leaves the old document in place
MigrateWrites_KeepOld(meal, currentYear, currentMonth, tz, now) ==
    LET dayOfMonth == MealDayOfMonth(meal)
        newDate    == MakeDate(currentYear, currentMonth, dayOfMonth)
    IN  IF newDate = Invalid THEN <<>>
        ELSE LET newDocId  == PadStart(NumToString(dayOfMonth), 2)
                 cleanData ==
                     Merge(Without(meal, {"id", "created_at", "updated_at"}),
                           [date        |-> ToISODate(newDate, tz),
                            day_of_week |-> daysOfWeek[DayOfWeekIndex(newDate) + 1],
                            updated_at  |-> now,
                            created_at  |-> meal.created_at])
             IN  IF meal.id = newDocId
                 THEN <<[op |-> "update", key |-> newDocId, data |-> TopLevel(cleanData)]>>
                 ELSE <<[op |-> "set", key |-> newDocId, data |-> cleanData]>>

\* the body of the loop for one meal: the writes it adds to the batch; none
\* when toISOString throws on an Invalid Date (the item is skipped)
MigrateWrites(meal, currentYear, currentMonth, tz, now) ==
    LET dayOfMonth == MealDayOfMonth(meal)
        newDate    == MakeDate(currentYear, currentMonth, dayOfMonth)
    IN  IF newDate = Invalid THEN <<>>
        ELSE LET newDateString == ToISODate(newDate, tz)
                 newDocId      == PadStart(NumToString(dayOfMonth), 2)
                 newDayOfWeek  == daysOfWeek[DayOfWeekIndex(newDate) + 1]
                 cleanData ==
                     Merge(Without(meal, {"id", "created_at", "updated_at"}),
                           [date        |-> newDateString,
                            day_of_week |-> newDayOfWeek,
                            updated_at  |-> now,
                            created_at  |-> meal.created_at])
             IN  IF meal.id = newDocId
                 THEN <<[op |-> "update", key |-> newDocId, data |-> TopLevel(cleanData)]>>
                 ELSE <<[op |-> "delete", key |-> meal.id],
                        [op |-> "set", key |-> newDocId, data |-> cleanData]>>

RECURSIVE MigrateBatch(_, _, _, _, _)
MigrateBatch(meals, currentYear, currentMonth, tz, now) ==
    IF meals = <<>> THEN [writes |-> <<>>, updatedCount |-> 0]
    ELSE LET w    == MigrateWrites(Head(meals), currentYear, currentMonth, tz, now)
             rest == MigrateBatch(Tail(meals), currentYear, currentMonth, tz, now)
         IN  [writes       |-> w \o rest.writes,
              updatedCount |-> (IF w = <<>> THEN 0 ELSE 1) + rest.updatedCount]

\* a migration that goes on to build and commit a batch when the scan
\* found nothing
updateMealDatesToCurrentMonth_NoFailFast(st, e, now, fault) ==
    LET meals == getAllMeals(st, now, fault)
        b     == MigrateBatch(meals, e.year, e.month, e.tz, now)
        c     == commit(st, b.writes, fault = "write")
    IN  IF c.ok
        THEN [store |-> c.store,
              ret |-> [success |-> TRUE, updated |-> b.updatedCount, error |-> "none"]]
        ELSE [store |-> st,
              ret |-> [success |-> FALSE, updated |-> 0, error |-> "commit rejected"]]

updateMealDatesToCurrentMonth(st, e, now, fault) ==
    LET meals == getAllMeals(st, now, fault)
    IN  IF Len(meals) = 0
        THEN [store |-> st,
              ret |-> [success |-> FALSE, updated |-> 0, error |-> "No meals found in database"]]
        ELSE LET b == MigrateBatch(meals, e.year, e.month, e.tz, now)
                 c == commit(st, b.writes, fault = "write")
             IN  IF c.ok
                 THEN [store |-> c.store,
                       ret |-> [success |-> TRUE, updated |-> b.updatedCount, error |-> "none"]]
                 ELSE [store |-> st,
                       ret |-> [success |-> FALSE, updated |-> 0, error |-> "commit rejected"]]

(***************************************************************************)
(* MealsForUser                                                            *)
(***************************************************************************)
MealTypeName(slot) ==
    IF slot = "breakfast" THEN "Breakfast" ELSE IF slot = "lunch" THEN "Lunch" ELSE "Dinner"

\* { date: doc.date, mealType, meal: doc[slot] }; date is missing from the
\* entry when the document has none
MealEntry(meal, slot) ==
    Merge([mealType |-> MealTypeName(slot), meal |-> meal[slot]],
          IF "date" \in DOMAIN meal THEN [date |-> meal.date] ELSE EmptyMap)

\* the entries pushed for the slots, in order, that the document holds
RECURSIVE PushSlots(_, _)
PushSlots(meal, slots) ==
    IF slots = <<>> THEN <<>>
    ELSE (IF Head(slots) \in DOMAIN meal THEN <<MealEntry(meal, Head(slots))>> ELSE <<>>)
         \o PushSlots(meal, Tail(slots))

\* doc.responsibility?.[field] === userId
IsResponsible(meal, field, userId) ==
    /\ "responsibility" \in DOMAIN meal
    /\ field \in DOMAIN meal.responsibility
    /\ meal.responsibility[field] = userId

AssignedOf(meal, userId) ==
    (IF IsResponsible(meal, "breakfastLunchId", userId)
     THEN PushSlots(meal, <<"breakfast", "lunch">>) ELSE <<>>)
    \o (IF IsResponsible(meal, "dinnerId", userId)
        THEN PushSlots(meal, <<"dinner">>) ELSE <<>>)

\* userAttendance[slot] && doc[slot] for each slot, in order
RECURSIVE PushAttended(_, _, _)
PushAttended(meal, userAttendance, slots) ==
    IF slots = <<>> THEN <<>>
    ELSE (IF /\ Head(slots) \in DOMAIN userAttendance
             /\ userAttendance[Head(slots)]
             /\ Head(slots) \in DOMAIN meal
          THEN <<MealEntry(meal, Head(slots))>> ELSE <<>>)
         \o PushAttended(meal, userAttendance, Tail(slots))

AttendingOf(meal, userId) ==
    IF "attendance" \in DOMAIN meal /\ userId \in DOMAIN meal.attendance
    THEN PushAttended(meal, meal.attendance[userId], <<"breakfast", "lunch", "dinner">>)
    ELSE PushSlots(meal, <<"breakfast", "lunch", "dinner">>)

RECURSIVE CollectMeals(_, _)
CollectMeals(allMeals, userId) ==
    IF allMeals = <<>> THEN [assigned |-> <<>>, attending |-> <<>>]
    ELSE LET rest == CollectMeals(Tail(allMeals), userId)
         IN  [assigned  |-> AssignedOf(Head(allMeals), userId) \o rest.assigned,
              attending |-> AttendingOf(Head(allMeals), userId) \o rest.attending]

\* new Date(item.date).getTime(), as a number that orders the valid dates;
\* NaN for an entry without a date or with one that does not parse
DateTime(item) ==
    LET date == IF "date" \in DOMAIN item THEN ParseLocalDate(item.date) ELSE Invalid
    IN  IF date = Invalid THEN NaN ELSE date.y * 10000 + date.m * 100 + date.d

\* sortFn(a, b) > 0; a NaN difference compares as equal
SortsAfter(a, b) ==
    DateTime(a) # NaN /\ DateTime(b) # NaN /\ DateTime(a) > DateTime(b)

RECURSIVE InsertByDate(_, _)
InsertByDate(item, sorted) ==
    IF sorted = <<>> THEN <<item>>
    ELSE IF SortsAfter(Head(sorted), item) THEN <<item>> \o sorted
    ELSE <<Head(sorted)>> \o InsertByDate(item, Tail(sorted))

\* Array.prototype.sort(sortFn): a stable sort by date
RECURSIVE SortByDate(_)
SortByDate(items) ==
    IF items = <<>> THEN <<>>
    ELSE InsertByDate(items[Len(items)], SortByDate(SubSeq(items, 1, Len(items) - 1)))

\* item.date >= todayStr, a comparison of strings; false without a date
OnOrAfter(item, todayStr) == "date" \in DOMAIN item /\ ~StrLess(item.date, todayStr)

\* a list of duties that keeps the past ones
FutureAssigned_Unfiltered(assigned, todayStr) == assigned

FutureAssigned(assigned, todayStr) ==
    SelectSeq(assigned, LAMBDA item : OnOrAfter(item, todayStr))

getUserMeals(st, userId, todayStr, now, fault) ==
    LET allMeals == getAllMeals(st, now, fault)
        found    == CollectMeals(allMeals, userId)
    IN  [store |-> st,
         ret |-> [assigned  |-> FutureAssigned(SortByDate(found.assigned), todayStr),
                  attending |-> SortByDate(found.attending)]]

(***************************************************************************)
(* Inputs and initial stores.  The strings are written out character by    *)
(* character, independently of the formatting operators above.             *)
(***************************************************************************)
D2(n) == <<DigitChars[(n \div 10) + 1], DigitChars[(n % 10) + 1]>>

D4(n) == D2(n \div 100) \o D2(n % 100)

Iso(y, m, d) == D4(y) \o <<"-">> \o D2(m) \o <<"-">> \o D2(d)

Faults == {"none", "read", "write"}

TZs == {0 - 1, 0, 1}

NoOp == [op |-> "init", arg |-> EmptyMap, ret |-> EmptyMap, pre |-> EmptyMap]

BaseDoc(dateString, weekday, tag) ==
    [date           |-> dateString,
     day_of_week    |-> weekday,
     breakfast      |-> <<tag, "breakfast">>,
     lunch          |-> <<tag, "lunch">>,
     dinner         |-> <<tag, "dinner">>,
     total_calories |-> 1800,
     created_at     |-> 0,
     updated_at     |-> 0]

\* the documents a store of Spec starts from: a canonical day with both
\* ledgers in use (a full record for u1, a partial one for u2), a day under
\* a legacy unpadded key, the same day of the next month under the padded
\* key, and a day 31 that never had a created_at
SeedDocs ==
    (D2(5) :> Merge(BaseDoc(Iso(2026, 1, 5), "Monday", "a"),
                    [attendance     |-> ("u1" :> [breakfast |-> FALSE, lunch |-> TRUE,
                                                  dinner |-> TRUE])
                                        @@ ("u2" :> [dinner |-> FALSE]),
                     responsibility |-> [breakfastLunchId |-> "u1"]]))
    @@ (<<"6">> :> BaseDoc(Iso(2026, 1, 6), "Tuesday", "b"))
    @@ (D2(6) :> Merge(BaseDoc(Iso(2026, 2, 6), "Friday", "c"),
                       [responsibility |-> [breakfastLunchId |-> Null, dinnerId |-> "u2"]]))
    @@ (D2(31) :> Without(BaseDoc(Iso(2026, 1, 31), "Saturday", "d"), {"created_at"}))

\* the empty collection, and day "05" with any of the other seed documents
SeedStores ==
    {EmptyMap} \cup {[k \in keys \cup {D2(5)} |-> SeedDocs[k]] : keys \in SUBSET DOMAIN SeedDocs}

\* the date-like strings the callers pass: "D", "DD" and "YYYY-MM-DD"
OpKeys == {<<"5">>, Iso(2026, 2, 6)}

\* the forms of a single-digit day passed to getByDate, with the day meant
GetInputs ==
    { [n |-> 6, date |-> <<"6">>], [n |-> 6, date |-> D2(6)],
      [n |-> 6, date |-> Iso(2026, 2, 6)], [n |-> 5, date |-> <<"5">>] }

\* the partial documents passed to update
Patches ==
    { [breakfast |-> <<"new", "breakfast">>],
      [dinner |-> <<"new", "dinner">>, total_calories |-> 2100],
      [date |-> Iso(2026, 2, 6)] }

MaxDates == 2      \* entries in the list passed to bulkAssign

DateLists == UNION {[1..n -> OpKeys] : n \in 0..MaxDates}

\* the updates passed to bulkAssign: no field, one field, both; the empty
\* string as a value clears the assignment
BulkUpdates ==
    { EmptyMap,
      [breakfastLunchId |-> "u2"],
      [dinnerId |-> EmptyString],
      [breakfastLunchId |-> EmptyString, dinnerId |-> "u1"] }

(***************************************************************************)
(* Operations.  Each action is one call of an exported function, run to    *)
(* completion; it records the call in last.                                *)
(***************************************************************************)
Op(name, arg, res, track, bound) ==
    /\ clock < bound
    /\ store' = res.store
    /\ clock' = clock + 1
    /\ last' = [op |-> name, arg |-> arg, ret |-> res.ret, pre |-> store]
    /\ prev' = IF track THEN last ELSE prev
    /\ UNCHANGED <<env, q>>

Get(track, bound) ==
    \E in \in GetInputs, fault \in {"none", "read", "read2"} :
        Op("get", [date |-> in.date, n |-> in.n, fault |-> fault],
           [store |-> store,
            ret |-> getMealByDate(store, in.date, env.tz, clock + 1, fault)],
           track, bound)

Update(track, bound) ==
    \E mealId \in OpKeys, updates \in Patches, fault \in {"none", "write"} :
        Op("update", [mealId |-> mealId, updates |-> updates, fault |-> fault],
           updateMeal(store, mealId, updates, env.tz, clock + 1, fault), track, bound)

Toggle(track, bound) ==
    \E mealId \in OpKeys, mealType \in MealTypes, userId \in Users,
       isSkipping \in BOOLEAN, fault \in Faults :
        Op("toggle", [mealId |-> mealId, mealType |-> mealType, userId |-> userId,
                      isSkipping |-> isSkipping, fault |-> fault],
           toggleMealAttendance(store, mealId, mealType, userId, isSkipping, env.tz, fault),
           track, bound)

Assign(track, bound) ==
    \E mealId \in OpKeys, slot \in RespSlots, userId \in {"u1", Null, EmptyString},
       fault \in {"none", "write"} :
        Op("assign", [mealId |-> mealId, slot |-> slot, userId |-> userId, fault |-> fault],
           updateMealResponsibility(store, mealId, slot, userId, env.tz, fault),
           track, bound)

BulkAssign(track, bound) ==
    \E dates \in DateLists, updates \in BulkUpdates, fault \in {"none", "write"} :
        Op("bulk", [dates |-> dates, updates |-> updates, fault |-> fault],
           bulkUpdateMealResponsibility(store, dates, updates, env.tz, fault),
           track, bound)

Migrate(track, bound) ==
    \E fault \in Faults :
        Op("migrate", [fault |-> fault, year |-> env.year, month |-> env.month],
           updateMealDatesToCurrentMonth(store, env, clock + 1, fault), track, bound)

\* the days of the current month on which mealsForUser is called
TodayDays == {1, 6, 16}

UserMeals(track, bound) ==
    \E userId \in Users \cup {EmptyString}, day \in TodayDays, fault \in {"none", "read"} :
        LET todayStr == Iso(env.year, env.month + 1, day)
        IN  Op("meals", [userId |-> userId, today |-> todayStr, fault |-> fault],
               getUserMeals(store, userId, todayStr, clock + 1, fault), track, bound)

(***************************************************************************)
(* Spec: every operation, from the subsets of the seed documents.          *)
(***************************************************************************)
Init ==
    /\ store \in SeedStores
    /\ clock = 0
    /\ \E tz \in TZs : env = [year |-> 2026, month |-> 1, tz |-> tz]
    /\ last = NoOp
    /\ prev = NoOp
    /\ q = EmptyMap

Next ==
    \/ Get(FALSE, MaxOps)
    \/ Update(FALSE, MaxOps)
    \/ Toggle(FALSE, MaxOps)
    \/ Assign(FALSE, MaxOps)
    \/ BulkAssign(FALSE, MaxOps)
    \/ Migrate(FALSE, MaxOps)

Spec == Init /\ [][Next]_vars

(***************************************************************************)
(* SpecToggle: attendance toggles only, the operation before the last one  *)
(* kept in prev.                                                           *)
(***************************************************************************)
NextToggle == Toggle(TRUE, MaxTogOps)

SpecToggle == Init /\ [][NextToggle]_vars

(***************************************************************************)
(* SpecMig: the migration run again and again as the months pass, from     *)
(* stores that mix the key schemes.                                        *)
(***************************************************************************)
\* a day 1 and a day 31 under canonical keys, a legacy document under its
\* "YYYY-MM-DD" key, a day 5 under the unpadded key and another under the
\* padded key, and a document without a date
MigDocs ==
    (D2(1) :> BaseDoc(Iso(2026, 1, 1), "Thursday", "a"))
    @@ (D2(31) :> Merge(BaseDoc(Iso(2026, 1, 31), "Saturday", "b"),
                        [responsibility |-> [dinnerId |-> "u1"]]))
    @@ (Iso(2025, 1, 31) :> BaseDoc(Iso(2025, 1, 31), "Friday", "c"))
    @@ (<<"5">> :> Merge(BaseDoc(Iso(2025, 12, 5), "Friday", "d"),
                         [attendance |-> ("u1" :> [breakfast |-> FALSE, lunch |-> TRUE,
                                                   dinner |-> TRUE])]))
    @@ (D2(5) :> Without(BaseDoc(Iso(2026, 1, 5), "Monday", "e"), {"created_at"}))
    @@ (D2(7) :> Without(BaseDoc(Iso(2026, 1, 7), "Wednesday", "f"), {"date"}))

InitMig ==
    /\ \E keys \in SUBSET DOMAIN MigDocs : store = [k \in keys |-> MigDocs[k]]
    /\ clock = 0
    /\ \E month \in {0, 1}, tz \in TZs : env = [year |-> 2026, month |-> month, tz |-> tz]
    /\ last = NoOp
    /\ prev = NoOp
    /\ q = EmptyMap

\* the calendar moves on to the next month
Tick ==
    /\ clock < MaxMigOps
    /\ env.month < 2
    /\ env' = [env EXCEPT !.month = env.month + 1]
    /\ clock' = clock + 1
    /\ last' = [op |-> "tick", arg |-> EmptyMap, ret |-> EmptyMap, pre |-> store]
    /\ prev' = last
    /\ UNCHANGED <<store, q>>

NextMig == Migrate(TRUE, MaxMigOps) \/ Tick

SpecMig == InitMig /\ [][NextMig]_vars

(***************************************************************************)
(* SpecKey: the key resolver applied to one date-like string.              *)
(***************************************************************************)
\* the decimal form of a day without padding
Unpadded(n) == IF n < 10 THEN <<DigitChars[n + 1]>> ELSE D2(n)

DayQueries ==
    { [form |-> "unpadded", n |-> n, input |-> Unpadded(n)] : n \in 1..31 }
    \cup { [form |-> "padded", n |-> n, input |-> D2(n)] : n \in 1..31 }
    \cup { [form |-> "iso", n |-> n, input |-> Iso(y, m, n)] :
             n \in 1..31, y \in {2025, 2026}, m \in {1, 2, 12} }

InitKey ==
    /\ store = EmptyMap
    /\ clock = 0
    /\ \E tz \in TZs : env = [year |-> 2026, month |-> 1, tz |-> tz]
    /\ last = NoOp
    /\ prev = NoOp
    /\ \E query \in DayQueries : q = Merge(query, [done |-> FALSE, key |-> <<>>])

Resolve ==
    /\ ~q.done
    /\ q' = [q EXCEPT !.done = TRUE, !.key = getDayId(q.input, env.tz)]
    /\ UNCHANGED <<store, clock, env, last, prev>>

NextKey == Resolve

SpecKey == InitKey /\ [][NextKey]_vars

(***************************************************************************)
(* Properties.                                                             *)
(***************************************************************************)
\* field f is absent from both maps or holds the same value in both
SameField(a, b, f) ==
    /\ (f \in DOMAIN a) <=> (f \in DOMAIN b)
    /\ f \in DOMAIN a => a[f] = b[f]

\* C10: for every day of the month n in 1..31, resolveKey gives the same
\* two-character zero-padded key for the unpadded form of n, the padded form
\* of n and every "YYYY-MM-DD" string whose day segment is n
C10_ResolveKeyConverges ==
    (q # EmptyMap /\ q.done /\ q.form \in {"unpadded", "padded", "iso"})
        => (Len(q.key) = 2 /\ q.key = D2(q.n))

C10_Witness ==
    /\ q # EmptyMap /\ q.done
    /\ q.form = "iso" /\ q.input = Iso(2026, 1, 1)
    /\ q.key = <<"0", "1">>

\* C9: for a single-digit day n and each accepted form of it, getByDate
\* returns the document under the padded key "0n" if there is one, else the
\* document under the unpadded key "n" if there is one, else not-found
\* (when the store rejects no read)
C9_Returned(key) ==
    /\ last.ret.found
    /\ last.ret.doc.id = key
    /\ \A f \in DOMAIN last.pre[key] : last.ret.doc[f] = last.pre[key][f]

C9_GetByDateFallback ==
    (last.op = "get" /\ last.arg.fault = "none")
        => LET padded   == D2(last.arg.n)
               unpadded == <<DigitChars[last.arg.n + 1]>>
           IN  IF padded \in DOMAIN last.pre THEN C9_Returned(padded)
               ELSE IF unpadded \in DOMAIN last.pre THEN C9_Returned(unpadded)
               ELSE ~last.ret.found

C9_Witness ==
    /\ last.op = "get" /\ last.arg.fault = "none"
    /\ last.arg.date = Iso(2026, 2, 6)
    /\ D2(6) \notin DOMAIN last.pre /\ <<"6">> \in DOMAIN last.pre
    /\ last.ret.found /\ last.ret.doc.id = <<"6">>
    /\ last.ret.doc.date = Iso(2026, 1, 6)

\* C8: a successful update changes, in the document the key resolves to,
\* exactly the top-level fields named in partialFields plus updated_at, which
\* advances; every other field and every other document is unchanged; a
\* failed update changes nothing
C8_UpdateFrame ==
    last.op = "update"
        => LET k   == getDayId(last.arg.mealId, env.tz)
               upd == last.arg.updates
               st  == last.pre
           IN  IF last.ret
               THEN /\ k \in DOMAIN st
                    /\ DOMAIN store = DOMAIN st
                    /\ \A o \in DOMAIN st \ {k} : store[o] = st[o]
                    /\ DOMAIN store[k] = DOMAIN st[k] \cup DOMAIN upd \cup {"updated_at"}
                    /\ \A f \in DOMAIN upd : store[k][f] = upd[f]
                    /\ \A f \in DOMAIN st[k] \ (DOMAIN upd \cup {"updated_at"}) :
                           store[k][f] = st[k][f]
                    /\ "updated_at" \in DOMAIN st[k]
                           => store[k].updated_at > st[k].updated_at
               ELSE store = st

C8_Witness ==
    /\ last.op = "update" /\ last.ret
    /\ last.arg.updates = [dinner |-> <<"new", "dinner">>, total_calories |-> 2100]
    /\ store[D2(5)].dinner = <<"new", "dinner">>
    /\ store[D2(5)].total_calories = 2100
    /\ store[D2(5)].breakfast = last.pre[D2(5)].breakfast
    /\ store[D2(5)].updated_at > last.pre[D2(5)].updated_at

\* the responsibility map of a document, empty when the field is absent
RespOf(data) == IF "responsibility" \in DOMAIN data THEN data.responsibility ELSE EmptyMap

\* the attendance map of a document, empty when the field is absent
AttOf(data) == IF "attendance" \in DOMAIN data THEN data.attendance ELSE EmptyMap

\* between before and after only the named responsibility slots were written
OnlyRespWritten(before, after, named) ==
    /\ \A f \in (DOMAIN before \cup DOMAIN after) \ {"responsibility"} :
           SameField(before, after, f)
    /\ \A sl \in RespSlots \ named : SameField(RespOf(before), RespOf(after), sl)
    /\ \A sl \in named : sl \in DOMAIN RespOf(after)
    /\ named = {} => after = before

\* C7: a successful assign changes exactly responsibility[slot] of that day;
\* a successful bulkAssign changes on each target document exactly the fields
\* present in updates; the omitted responsibility field, the attendance map,
\* the meals and every non-target document are unchanged
C7_ResponsibilityFrame ==
    /\ (last.op = "assign" /\ last.ret)
        => LET k == getDayId(last.arg.mealId, env.tz)
           IN  /\ k \in DOMAIN last.pre
               /\ DOMAIN store = DOMAIN last.pre
               /\ OnlyRespWritten(last.pre[k], store[k], {last.arg.slot})
               /\ \A o \in DOMAIN store \ {k} : store[o] = last.pre[o]
    /\ (last.op = "bulk" /\ last.ret.success)
        => LET targets == {getDayId(last.arg.dates[i], env.tz) :
                              i \in 1..Len(last.arg.dates)}
               named   == DOMAIN last.arg.updates \cap RespSlots
           IN  /\ DOMAIN store = DOMAIN last.pre
               /\ \A k \in DOMAIN store :
                      IF k \in targets
                      THEN OnlyRespWritten(last.pre[k], store[k], named)
                      ELSE store[k] = last.pre[k]

C7_Witness ==
    /\ last.op = "bulk" /\ last.ret.success
    /\ last.arg.updates = [breakfastLunchId |-> "u2"]
    /\ Len(last.arg.dates) = 2 /\ last.arg.dates[1] # last.arg.dates[2]
    /\ last.pre[D2(6)].responsibility = [breakfastLunchId |-> Null, dinnerId |-> "u2"]
    /\ store[D2(6)].responsibility = [breakfastLunchId |-> "u2", dinnerId |-> "u2"]
    /\ store[D2(5)].responsibility = [breakfastLunchId |-> "u2"]
    /\ store[D2(5)].attendance = last.pre[D2(5)].attendance

\* C5: a successful toggle sets attendance[user][slot] to the negation of
\* skipping, leaves the user's other two slots as they were (true for each
\* when the user had no record), and leaves every other user's record, the
\* responsibility map, the meals and every other document unchanged
C5_ToggleFrame ==
    (last.op = "toggle" /\ last.ret)
        => LET k      == getDayId(last.arg.mealId, env.tz)
               u      == last.arg.userId
               sl     == last.arg.mealType
               before == last.pre[k]
               after  == store[k]
           IN  /\ k \in DOMAIN last.pre
               /\ DOMAIN store = DOMAIN last.pre
               /\ \A o \in DOMAIN store \ {k} : store[o] = last.pre[o]
               /\ u \in DOMAIN AttOf(after)
               /\ sl \in DOMAIN AttOf(after)[u]
               /\ AttOf(after)[u][sl] = ~last.arg.isSkipping
               /\ \A o \in MealTypes \ {sl} :
                      IF u \in DOMAIN AttOf(before)
                      THEN SameField(AttOf(before)[u], AttOf(after)[u], o)
                      ELSE o \in DOMAIN AttOf(after)[u] /\ AttOf(after)[u][o] = TRUE
               /\ \A v \in (DOMAIN AttOf(before) \cup DOMAIN AttOf(after)) \ {u} :
                      SameField(AttOf(before), AttOf(after), v)
               /\ \A f \in (DOMAIN before \cup DOMAIN after) \ {"attendance"} :
                      SameField(before, after, f)

C5_Witness ==
    /\ last.op = "toggle" /\ last.ret
    /\ last.arg.userId = "u1" /\ last.arg.mealType = "lunch" /\ last.arg.isSkipping
    /\ last.arg.mealId = Iso(2026, 2, 6)
    /\ "attendance" \notin DOMAIN last.pre[D2(6)]
    /\ store[D2(6)].attendance
           = ("u1" :> [breakfast |-> TRUE, lunch |-> FALSE, dinner |-> TRUE])

\* attendance[user][slot] as it is read: absent means eating
Eating(data, user, slot) ==
    IF user \in DOMAIN AttOf(data) /\ slot \in DOMAIN AttOf(data)[user]
    THEN AttOf(data)[user][slot]
    ELSE TRUE

C4_BatchAllOrNothing ==
    /\ ( /\ last.op = "bulk"
         /\ Len(last.arg.dates) > 0
         /\ DOMAIN last.arg.updates \cap RespSlots # {}
         /\ \/ last.arg.fault = "write"
            \/ \E i \in 1..Len(last.arg.dates) :
                   getDayId(last.arg.dates[i], env.tz) \notin DOMAIN last.pre )
        => (store = last.pre /\ ~last.ret.success)
    /\ ( /\ last.op = "migrate"
         /\ last.arg.fault = "write"
         /\ \E k \in DOMAIN last.pre :
                "date" \in DOMAIN last.pre[k] /\ ParseLocalDate(last.pre[k].date) # Invalid )
        => (store = last.pre /\ ~last.ret.success)

C4_Witness ==
    /\ last.op = "bulk" /\ last.arg.fault = "none"
    /\ last.arg.dates = <<<<"5">>, Iso(2026, 2, 6)>>
    /\ last.arg.updates = [breakfastLunchId |-> "u2"]
    /\ D2(5) \in DOMAIN last.pre /\ D2(6) \notin DOMAIN last.pre
    /\ ~last.ret.success
    /\ store = last.pre

\* no two documents, under any keys, hold the same date
DistinctDates(st) ==
    \A k1, k2 \in DOMAIN st :
        (k1 # k2 /\ "date" \in DOMAIN st[k1] /\ "date" \in DOMAIN st[k2])
            => st[k1].date # st[k2].date

\* C3 as stated: after any sequence of update, toggle, assign, bulkAssign
\* and migration from a store with pairwise distinct dates, no two documents
\* have the same date
C3_DistinctDatesAlways == DistinctDates(store)

\* C3 as amended: every operation other than an update whose partialFields
\* name date keeps the dates of the documents pairwise distinct
C3_DistinctDatesKept ==
    [][ ( /\ DistinctDates(store)
          /\ ~(last'.op = "update" /\ "date" \in DOMAIN last'.arg.updates) )
            => DistinctDates(store') ]_vars

C3_Witness ==
    /\ last.op = "migrate" /\ last.ret.success
    /\ DOMAIN last.pre = {D2(5), <<"6">>, D2(6), D2(31)}
    /\ DistinctDates(last.pre)
    /\ DOMAIN store = {D2(5), D2(6), D2(31)}
    /\ DistinctDates(store)

\* the day of the month of a stored date, 0 when there is none
DayOfDate(data) ==
    IF "date" \in DOMAIN data THEN ParseLocalDate(data.date).d ELSE 0

\* C2: the migration loses and duplicates nothing: every source document
\* whose day of the month no other source document shares is afterwards
\* exactly one document, at its new key, with its meals, total_calories,
\* attendance, responsibility and created_at as in the source; and there are
\* as many documents after as before
C2_MigrateLosesNothing ==
    (last.op = "migrate" /\ last.ret.success)
        => /\ \A k \in DOMAIN last.pre :
                  ( /\ DayOfDate(last.pre[k]) # 0
                    /\ \A o \in DOMAIN last.pre \ {k} :
                           DayOfDate(last.pre[o]) # DayOfDate(last.pre[k]) )
                      => LET newKey == D2(DayOfDate(last.pre[k]))
                         IN  /\ newKey \in DOMAIN store
                             /\ \A f \in {"breakfast", "lunch", "dinner", "total_calories",
                                          "attendance", "responsibility"} :
                                    SameField(last.pre[k], store[newKey], f)
                             /\ "created_at" \in DOMAIN last.pre[k]
                                    => store[newKey].created_at = last.pre[k].created_at
           /\ Cardinality(DOMAIN store) = Cardinality(DOMAIN last.pre)

\* C1: the migration run twice in immediate succession in the same month
\* leaves, after the second run, the same document keys and the same date in
\* every document as after the first run
C1_MigrateIdempotent ==
    ( /\ prev.op = "migrate" /\ prev.ret.success
      /\ last.op = "migrate" /\ last.ret.success
      /\ last.arg.year = prev.arg.year /\ last.arg.month = prev.arg.month )
        => /\ DOMAIN store = DOMAIN last.pre
           /\ \A k \in DOMAIN store : SameField(store[k], last.pre[k], "date")

(***************************************************************************)
(* SpecFault: every operation, mealsForUser included, each with the store  *)
(* rejecting one of its calls.                                             *)
(***************************************************************************)
MaxFaultOps == 1

NextFault ==
    \/ Get(FALSE, MaxFaultOps)
    \/ Update(FALSE, MaxFaultOps)
    \/ Toggle(FALSE, MaxFaultOps)
    \/ Assign(FALSE, MaxFaultOps)
    \/ BulkAssign(FALSE, MaxFaultOps)
    \/ Migrate(FALSE, MaxFaultOps)
    \/ UserMeals(FALSE, MaxFaultOps)

SpecFault == Init /\ [][NextFault]_vars

(***************************************************************************)
(* SpecMeals: the two ledgers and mealsForUser.                            *)
(***************************************************************************)
MaxMealOps == 2

\* day "05" of last month and day "06" of this month as in Spec, and a day
\* "15" without a lunch whose dinner is u1's duty and that nobody has
\* answered for
MealDocs ==
    (D2(5) :> SeedDocs[D2(5)])
    @@ (D2(6) :> SeedDocs[D2(6)])
    @@ (D2(15) :> Merge(Without(BaseDoc(Iso(2026, 2, 15), "Sunday", "e"), {"lunch"}),
                        [responsibility |-> [dinnerId |-> "u1"]]))

InitMeals ==
    /\ \E keys \in SUBSET DOMAIN MealDocs : store = [k \in keys |-> MealDocs[k]]
    /\ clock = 0
    /\ env = [year |-> 2026, month |-> 1, tz |-> 0]
    /\ last = NoOp
    /\ prev = NoOp
    /\ q = EmptyMap

NextMeals ==
    \/ Toggle(FALSE, MaxMealOps)
    \/ Assign(FALSE, MaxMealOps)
    \/ BulkAssign(FALSE, MaxMealOps)
    \/ UserMeals(FALSE, MaxMealOps)

SpecMeals == InitMeals /\ [][NextMeals]_vars

(***************************************************************************)
(* SpecSoft: the key resolver applied to strings that are no day number,   *)
(* no "YYYY-MM-DD" and no date any JavaScript engine parses: words over    *)
(* letters and hyphens.                                                    *)
(***************************************************************************)
MaxSoftLen == 5

SoftChars == {"a", "x", "-"}

SoftStrings == UNION { [1..n -> SoftChars] : n \in 0..MaxSoftLen }

InitSoft ==
    /\ store = EmptyMap
    /\ clock = 0
    /\ \E tz \in TZs : env = [year |-> 2026, month |-> 1, tz |-> tz]
    /\ last = NoOp
    /\ prev = NoOp
    /\ \E s \in SoftStrings :
           q = [form |-> "soft", n |-> 0, input |-> s, done |-> FALSE, key |-> <<>>]

NextSoft == Resolve

SpecSoft == InitSoft /\ [][NextSoft]_vars

\* C11: the key resolver soft-fails: for every string that is no 1-2 digit
\* number, no "YYYY-MM-DD" and no parseable date, strings with hyphens
\* included, the resolved key is exactly the input string
C11_ResolveKeySoftFails ==
    (q.done /\ q.form = "soft") => q.key = q.input

\* the store rejected a call that the last operation issued: the first read
\* or scan, the fallback read (issued when the padded key has no document),
\* the single write, or the commit of a batch that holds a write
StoreRejected ==
    \/ /\ last.op = "get"
       /\ \/ last.arg.fault = "read"
          \/ last.arg.fault = "read2" /\ D2(last.arg.n) \notin DOMAIN last.pre
    \/ last.op \in {"update", "assign"} /\ last.arg.fault = "write"
    \/ /\ last.op = "toggle"
       /\ \/ last.arg.fault = "read"
          \/ last.arg.fault = "write" /\ D2(IF last.arg.mealId = <<"5">> THEN 5 ELSE 6)
                                             \in DOMAIN last.pre
    \/ /\ last.op = "bulk" /\ last.arg.fault = "write"
       /\ last.arg.dates # <<>> /\ DOMAIN last.arg.updates # {}
    \/ /\ last.op = "migrate"
       /\ \/ last.arg.fault = "read"
          \/ last.arg.fault = "write" /\ DOMAIN last.pre # {}
    \/ last.op = "meals" /\ last.arg.fault = "read"

\* the failure value of the last operation's kind
IsFailureValue ==
    IF last.op = "get" THEN last.ret = [found |-> FALSE]
    ELSE IF last.op \in {"update", "toggle", "assign"} THEN last.ret = FALSE
    ELSE IF last.op \in {"bulk", "migrate"}
         THEN ~last.ret.success /\ "error" \in DOMAIN last.ret
    ELSE last.ret = [assigned |-> <<>>, attending |-> <<>>]

\* C12: when the store rejects a read or a write of getByDate, update,
\* toggleAttendance, assignResponsibility, bulkAssignResponsibility,
\* migrateToCurrentMonth or mealsForUser, the operation returns its failure
\* value (null, false, {success: false, error}, empty lists) and every
\* stored document is as it was
C12_StoreFailureIsAResult ==
    StoreRejected => (IsFailureValue /\ store = last.pre)

C12_Witness ==
    /\ last.op = "toggle" /\ last.arg.fault = "write"
    /\ last.arg.mealId = <<"5">> /\ D2(5) \in DOMAIN last.pre
    /\ last.ret = FALSE
    /\ store = last.pre

\* C13: after a successful migration every document's key is the two-digit
\* zero-padded day of the month of the document's stored date, and every
\* stored date lies in the year and month of the run
C13_KeysMatchDatesAfterMigration ==
    (last.op = "migrate" /\ last.ret.success)
        => \A k \in DOMAIN store :
               /\ "date" \in DOMAIN store[k]
               /\ LET date == ParseLocalDate(store[k].date)
                  IN  /\ date # Invalid
                      /\ k = D2(date.d)
                      /\ date.y = last.arg.year
                      /\ date.m = last.arg.month + 1

\* C14: the document dated "2025-01-31" under the key "2025-01-31",
\* migrated in February 2026, becomes a document dated 2026-02-28 under the
\* key "28", its old key deleted in the same batch
C14_JanuaryThirtyFirstInFebruary ==
    ( /\ last.op = "migrate" /\ last.ret.success
      /\ last.arg.year = 2026 /\ last.arg.month = 1
      /\ DOMAIN last.pre = {Iso(2025, 1, 31)}
      /\ last.pre[Iso(2025, 1, 31)].date = Iso(2025, 1, 31) )
        => /\ DOMAIN store = {D2(28)}
           /\ store[D2(28)].date = Iso(2026, 2, 28)

\* the weekday name of a date string, Sunday first
WeekdayOf(dateString) == daysOfWeek[DayOfWeekIndex(ParseLocalDate(dateString)) + 1]

\* C15: day_of_week stays consistent with date: every document the
\* migration writes, and every document any operation leaves, stores the
\* weekday name of the date stored beside it
C15_DayOfWeekMatchesDate ==
    \A k \in DOMAIN store :
        ( /\ "date" \in DOMAIN store[k] /\ "day_of_week" \in DOMAIN store[k]
          /\ ParseLocalDate(store[k].date) # Invalid )
            => store[k].day_of_week = WeekdayOf(store[k].date)

\* the key of the document that a date-like string of OpKeys names
DocKeyOf(mealId) == IF mealId = <<"5">> THEN D2(5) ELSE D2(6)

\* no responsibility slot of any document holds the empty string
NoEmptyAssignee(st) ==
    \A k \in DOMAIN st :
        "responsibility" \in DOMAIN st[k]
            => \A f \in DOMAIN st[k].responsibility : st[k].responsibility[f] # EmptyString

\* C16: after any sequence of assignResponsibility and
\* bulkAssignResponsibility calls with a user id, null or the empty string,
\* no responsibility slot holds the empty string: a null or empty argument
\* leaves the slot null, and mealsForUser reports nothing as assigned to
\* the empty string
C16_EmptyStringNeverAssigned ==
    /\ NoEmptyAssignee(store)
    /\ (last.op = "assign" /\ last.ret /\ last.arg.userId \in {Null, EmptyString})
           => store[DocKeyOf(last.arg.mealId)].responsibility[last.arg.slot] = Null
    /\ (last.op = "bulk" /\ last.ret.success)
           => \A i \in 1..Len(last.arg.dates) : \A f \in DOMAIN last.arg.updates :
                  last.arg.updates[f] \in {Null, EmptyString}
                      => store[DocKeyOf(last.arg.dates[i])].responsibility[f] = Null
    /\ (last.op = "meals" /\ last.arg.userId = EmptyString) => last.ret.assigned = <<>>

C16_Witness ==
    /\ last.op = "assign" /\ last.ret
    /\ last.arg.userId = EmptyString
    /\ last.arg.mealId = <<"5">> /\ last.arg.slot = "breakfastLunchId"
    /\ last.pre[D2(5)].responsibility.breakfastLunchId = "u1"
    /\ store[D2(5)].responsibility.breakfastLunchId = Null

\* C17: documents are destroyed only by the migration and only on a key
\* change: update, toggleAttendance, assignResponsibility and
\* bulkAssignResponsibility remove no key, and the migration removes a key
\* only of a document whose key differs from the padded day of its date
C17_DestroyedOnlyOnKeyChange ==
    /\ last.op \in {"update", "toggle", "assign", "bulk"}
           => DOMAIN last.pre \subseteq DOMAIN store
    /\ last.op = "migrate"
           => \A k \in DOMAIN last.pre \ DOMAIN store :
                  /\ DayOfDate(last.pre[k]) # 0
                  /\ k # D2(DayOfDate(last.pre[k]))

C17_Witness ==
    /\ last.op = "migrate" /\ last.ret.success
    /\ {<<"6">>, D2(5), D2(6)} \subseteq DOMAIN last.pre
    /\ <<"6">> \notin DOMAIN store
    /\ {D2(5), D2(6)} \subseteq DOMAIN store

\* C18 as stated: an update of a key that has no document returns ok and
\* leaves a document under the resolved key that holds partialFields
C18_UpdateCreatesDocument ==
    ( /\ last.op = "update" /\ last.arg.fault = "none"
      /\ DocKeyOf(last.arg.mealId) \notin DOMAIN last.pre )
        => /\ last.ret
           /\ DocKeyOf(last.arg.mealId) \in DOMAIN store
           /\ \A f \in DOMAIN last.arg.updates :
                  SameField(store[DocKeyOf(last.arg.mealId)], last.arg.updates, f)

\* C18 as amended: an update of a key that has no document fails, and no
\* document exists under the resolved key afterwards: the store is as before
C18_UpdateNeedsDocument ==
    (last.op = "update" /\ DocKeyOf(last.arg.mealId) \notin DOMAIN last.pre)
        => /\ last.ret = FALSE
           /\ DocKeyOf(last.arg.mealId) \notin DOMAIN store
           /\ store = last.pre

C18_Witness ==
    /\ last.op = "update" /\ last.arg.fault = "none"
    /\ last.arg.mealId = Iso(2026, 2, 6)
    /\ D2(6) \notin DOMAIN last.pre /\ <<"6">> \in DOMAIN last.pre
    /\ last.ret = FALSE
    /\ D2(6) \notin DOMAIN store

\* the elements of a list
Elements(list) == {list[i] : i \in 1..Len(list)}

\* the list entry for a slot of a stored document
SlotEntry(data, slot) ==
    [date     |-> data.date,
     mealType |-> CASE slot = "breakfast" -> "Breakfast"
                    [] slot = "lunch" -> "Lunch"
                    [] slot = "dinner" -> "Dinner",
     meal     |-> data[slot]]

\* the user eats the slot: no record for the day, or a record whose value
\* for the slot is true or absent
EatsSlot(data, user, slot) ==
    \/ "attendance" \notin DOMAIN data
    \/ user \notin DOMAIN data.attendance
    \/ slot \notin DOMAIN data.attendance[user]
    \/ data.attendance[user][slot]

\* C19: mealsForUser(u).attending holds, for every day document and every
\* meal slot of it, the slot exactly when u has no attendance record for the
\* day or the record's value for the slot is true or absent, whatever the
\* date of the day
C19_AttendingDefaultsToEating ==
    (last.op = "meals" /\ last.arg.fault = "none")
        => Elements(last.ret.attending)
             = { SlotEntry(last.pre[k], slot) :
                   <<k, slot>> \in { ks \in (DOMAIN last.pre) \X MealTypes :
                                       /\ ks[2] \in DOMAIN last.pre[ks[1]]
                                       /\ EatsSlot(last.pre[ks[1]], last.arg.userId, ks[2]) } }

\* a date string as a number that orders the dates
DateNumber(dateString) ==
    LET date == ParseLocalDate(dateString)
    IN  date.y * 10000 + date.m * 100 + date.d

\* the slots of a day that are the user's duty
DutySlots(data, user) ==
    IF "responsibility" \notin DOMAIN data THEN {}
    ELSE (IF /\ "breakfastLunchId" \in DOMAIN data.responsibility
             /\ data.responsibility.breakfastLunchId = user
          THEN {"breakfast", "lunch"} ELSE {})
         \cup (IF /\ "dinnerId" \in DOMAIN data.responsibility
                  /\ data.responsibility.dinnerId = user
               THEN {"dinner"} ELSE {})

\* C20: mealsForUser(u).assigned holds the breakfast and the lunch of a day
\* exactly when the day's breakfastLunchId is u, and the dinner exactly when
\* its dinnerId is u, for the days dated today or later and for no other
C20_AssignedAreOwnFutureDuties ==
    (last.op = "meals" /\ last.arg.fault = "none")
        => Elements(last.ret.assigned)
             = { SlotEntry(last.pre[k], slot) :
                   <<k, slot>> \in { ks \in (DOMAIN last.pre) \X MealTypes :
                                       /\ ks[2] \in DOMAIN last.pre[ks[1]]
                                       /\ ks[2] \in DutySlots(last.pre[ks[1]], last.arg.userId)
                                       /\ DateNumber(last.pre[ks[1]].date)
                                              >= DateNumber(last.arg.today) } }

C20_Witness ==
    /\ last.op = "meals" /\ last.arg.fault = "none"
    /\ last.arg.userId = "u1" /\ last.arg.today = Iso(2026, 2, 6)
    /\ {D2(5), D2(15)} \subseteq DOMAIN last.pre
    /\ last.pre[D2(5)].responsibility.breakfastLunchId = "u1"
    /\ last.pre[D2(15)].responsibility.dinnerId = "u1"
    /\ Len(last.ret.assigned) = 1
    /\ last.ret.assigned[1].mealType = "Dinner"
    /\ last.ret.assigned[1].date = Iso(2026, 2, 15)

\* the last operation was a bulk assignment or a migration whose batch held
\* a write and whose commit failed: the store rejected it, or (bulk) a
\* resolved key has no document
CommitFailed ==
    \/ /\ last.op = "bulk"
       /\ Len(last.arg.dates) > 0
       /\ DOMAIN last.arg.updates \cap RespSlots # {}
       /\ \/ last.arg.fault = "write"
          \/ \E i \in 1..Len(last.arg.dates) :
                 DocKeyOf(last.arg.dates[i]) \notin DOMAIN last.pre
    \/ /\ last.op = "migrate"
       /\ last.arg.fault = "write"
       /\ \E k \in DOMAIN last.pre : DayOfDate(last.pre[k]) # 0

\* the number of documents the operation had processed before the commit
AttemptedCount ==
    IF last.op = "bulk" THEN Len(last.arg.dates)
    ELSE Cardinality({k \in DOMAIN last.pre : DayOfDate(last.pre[k]) # 0})

\* C21 as stated: when the final commit of bulkAssign or of the migration
\* fails, the result has success = false and its updatedCount is the
\* attempted count, the number of documents processed before the commit
C21_FailureReportsAttemptedCount ==
    CommitFailed => (~last.ret.success /\ last.ret.updated = AttemptedCount)

\* C21 as amended: when the final commit fails, the result has success =
\* false and updatedCount 0, the persisted count, whatever the number of
\* documents processed before the commit
C21_FailureReportsZero ==
    CommitFailed => (~last.ret.success /\ last.ret.updated = 0 /\ AttemptedCount > 0)

C21_Witness ==
    /\ last.op = "bulk" /\ last.arg.fault = "write"
    /\ last.arg.dates = <<<<"5">>, Iso(2026, 2, 6)>>
    /\ {D2(5), D2(6)} \subseteq DOMAIN last.pre
    /\ DOMAIN last.arg.updates # {}
    /\ ~last.ret.success /\ last.ret.updated = 0

\* C22: when the scan of the migration finds no document, the migration
\* fails fast: success = false, updatedCount 0, an error, and nothing
\* written, also by a store that would reject the commit
C22_EmptyScanFailsFast ==
    (last.op = "migrate" /\ (DOMAIN last.pre = {} \/ last.arg.fault = "read"))
        => /\ ~last.ret.success
           /\ last.ret.updated = 0
           /\ last.ret.error = "No meals found in database"
           /\ store = last.pre

C22_Witness ==
    /\ last.op = "migrate" /\ last.arg.fault = "none"
    /\ DOMAIN last.pre = {}
    /\ ~last.ret.success /\ last.ret.updated = 0
    /\ DOMAIN store = {}

\* C23: bulkAssign with an empty list of day keys returns {success: true,
\* updatedCount: 0} for every updates value, also from a store that rejects
\* every write, and leaves every document unchanged
C23_EmptyBulkIsNoOp ==
    (last.op = "bulk" /\ last.arg.dates = <<>>)
        => /\ last.ret = [success |-> TRUE, updated |-> 0]
           /\ store = last.pre

C23_Witness ==
    /\ last.op = "bulk" /\ last.arg.dates = <<>>
    /\ last.arg.fault = "write"
    /\ last.arg.updates = [breakfastLunchId |-> "u2"]
    /\ D2(5) \in DOMAIN last.pre
    /\ last.ret.success /\ last.ret.updated = 0

(***************************************************************************)
(* SpecBulk: bulk assignments over lists in which several date strings     *)
(* name the same document.                                                 *)
(***************************************************************************)
MaxBulkOps == 1

\* the strings the bulk manager and the day view pass for day 5 and day 6,
\* each with the key of the document it names
BulkDays ==
    { [date |-> <<"5">>, key |-> <<"0", "5">>],
      [date |-> <<"0", "5">>, key |-> <<"0", "5">>],
      [date |-> <<"2", "0", "2", "6", "-", "0", "1", "-", "0", "5">>, key |-> <<"0", "5">>],
      [date |-> <<"2", "0", "2", "6", "-", "0", "2", "-", "0", "5">>, key |-> <<"0", "5">>],
      [date |-> <<"2", "0", "2", "6", "-", "0", "2", "-", "0", "6">>, key |-> <<"0", "6">>] }

BulkDateLists == UNION {[1..n -> {day.date : day \in BulkDays}] : n \in 0..MaxDates}

BulkAssignDays ==
    \E dates \in BulkDateLists, updates \in BulkUpdates, fault \in {"none", "write"} :
        Op("bulk", [dates |-> dates, updates |-> updates, fault |-> fault],
           bulkUpdateMealResponsibility(store, dates, updates, env.tz, fault),
           FALSE, MaxBulkOps)

NextBulk == BulkAssignDays

SpecBulk == Init /\ [][NextBulk]_vars

\* the keys of the documents that a list of date strings names
NamedKeys(dates) ==
    { (CHOOSE day \in BulkDays : day.date = dates[i]).key : i \in 1..Len(dates) }

\* C30: on success the updatedCount of bulkAssign is the number of distinct
\* documents whose responsibility was written, for every list of date
\* strings, also one in which two entries name the same document, and for
\* every updates value; with neither field present the count is 0 and no
\* document changes
C30_BulkCountsDistinctDocuments ==
    (last.op = "bulk" /\ last.ret.success)
        => IF DOMAIN last.arg.updates \cap RespSlots = {}
           THEN last.ret.updated = 0 /\ store = last.pre
           ELSE last.ret.updated = Cardinality(NamedKeys(last.arg.dates))

(***************************************************************************)
(* SpecRace: two toggleAttendance calls on the same day in progress at     *)
(* once.  A call is two steps, one at each await: the getDoc, then the     *)
(* updateDoc of the record computed from what the getDoc returned.         *)
(***************************************************************************)
\* const mealSnap = await getDoc(mealRef): the snapshot the call holds
toggleRead(st, docId) ==
    IF exists(st, docId) THEN [exists |-> TRUE, data |-> st[docId]]
    ELSE [exists |-> FALSE]

\* a write that computes the record from the document as it is at the write
toggleWrite_Fresh(st, docId, snap, mealType, userId, isSkipping, rejected) ==
    LET data              == IF exists(st, docId) THEN st[docId] ELSE snap.data
        currentAttendance == IF "attendance" \in DOMAIN data
                             THEN data.attendance ELSE EmptyMap
        userAttendance    == IF userId \in DOMAIN currentAttendance
                             THEN currentAttendance[userId]
                             ELSE DefaultAttendance
        toggled           == Merge(userAttendance, mealType :> ~isSkipping)
        w == updateDoc(st, docId, <<"attendance", userId>> :> toggled, rejected)
    IN  [store |-> w.store, ret |-> w.ok]

\* a write that stores the whole attendance map of the snapshot
toggleWrite_WholeMap(st, docId, snap, mealType, userId, isSkipping, rejected) ==
    LET data              == snap.data
        currentAttendance == IF "attendance" \in DOMAIN data
                             THEN data.attendance ELSE EmptyMap
        userAttendance    == IF userId \in DOMAIN currentAttendance
                             THEN currentAttendance[userId]
                             ELSE DefaultAttendance
        toggled           == Merge(userAttendance, mealType :> ~isSkipping)
        w == updateDoc(st, docId,
                       <<"attendance">> :> Merge(currentAttendance, userId :> toggled),
                       rejected)
    IN  [store |-> w.store, ret |-> w.ok]

\* the rest of the call: the user's record of the snapshot with the slot
\* set, written whole under attendance.<userId> of the stored document
toggleWrite(st, docId, snap, mealType, userId, isSkipping, rejected) ==
    LET data              == snap.data
        currentAttendance == IF "attendance" \in DOMAIN data
                             THEN data.attendance ELSE EmptyMap
        userAttendance    == IF userId \in DOMAIN currentAttendance
                             THEN currentAttendance[userId]
                             ELSE DefaultAttendance
        toggled           == Merge(userAttendance, mealType :> ~isSkipping)
        w == updateDoc(st, docId, <<"attendance", userId>> :> toggled, rejected)
    IN  [store |-> w.store, ret |-> w.ok]

Calls == {"A", "B"}

\* a call that has not reached its getDoc yet
NewCall(userId, mealType, isSkipping, fault) ==
    [userId |-> userId, mealType |-> mealType, isSkipping |-> isSkipping,
     fault |-> fault, pc |-> "start", snap |-> EmptyMap, readAt |-> 0, ret |-> FALSE]

InitRace ==
    /\ store = SeedDocs
    /\ clock = 0
    /\ env = [year |-> 2026, month |-> 1, tz |-> 0]
    /\ last = NoOp
    /\ prev = NoOp
    /\ \E mealId \in OpKeys \cup {D2(7)}, ua \in Users, ub \in Users,
          ma \in MealTypes, mb \in MealTypes, sa \in BOOLEAN, sb \in BOOLEAN,
          fa \in Faults, fb \in Faults :
          q = [mealId |-> mealId, pre |-> SeedDocs, writes |-> <<>>,
               A |-> NewCall(ua, ma, sa, fa), B |-> NewCall(ub, mb, sb, fb)]

\* lines 144-168: the key is resolved and the document read; a rejected read
\* and a missing document end the call with false
ToggleRead(c) ==
    /\ q[c].pc = "start"
    /\ LET docId == getDayId(q.mealId, env.tz)
           snap  == toggleRead(store, docId)
       IN  IF q[c].fault = "read" \/ ~snap.exists
           THEN q' = [q EXCEPT ![c].pc = "done", ![c].ret = FALSE]
           ELSE q' = [q EXCEPT ![c].pc = "read", ![c].snap = snap,
                               ![c].readAt = Len(q.writes)]
    /\ UNCHANGED <<store, clock, env, last, prev>>

\* lines 170-189: the record is computed from the snapshot and written
ToggleWrite(c) ==
    /\ q[c].pc = "read"
    /\ LET docId == getDayId(q.mealId, env.tz)
           res   == toggleWrite(store, docId, q[c].snap, q[c].mealType, q[c].userId,
                                q[c].isSkipping, q[c].fault = "write")
       IN  /\ store' = res.store
           /\ q' = [q EXCEPT ![c].pc = "done", ![c].ret = res.ret,
                             !.writes = IF res.ret THEN Append(q.writes, c) ELSE q.writes]
    /\ UNCHANGED <<clock, env, last, prev>>

NextRace ==
    \/ \E c \in Calls : ToggleRead(c)
    \/ \E c \in Calls : ToggleWrite(c)

SpecRace == InitRace /\ [][NextRace]_vars

\* both calls have returned true
BothToggled == \A c \in Calls : q[c].pc = "done" /\ q[c].ret

\* the record of a user in the current document of the day of the race
RecordNow(userId) == store[getDayId(q.mealId, env.tz)].attendance[userId]

\* the record of a user before the race, an absent one read as the default
RecordBefore(userId) ==
    LET data == q.pre[getDayId(q.mealId, env.tz)]
    IN  IF "attendance" \in DOMAIN data /\ userId \in DOMAIN data.attendance
        THEN data.attendance[userId] ELSE DefaultAttendance

\* the calls are one user's, on different slots, and each read the document
\* before any write
SameUserRace ==
    /\ BothToggled
    /\ q.A.userId = q.B.userId
    /\ q.A.mealType # q.B.mealType
    /\ \A c \in Calls : q[c].readAt = 0

\* C24: two concurrent toggleAttendance calls by one user on one day for
\* different slots race: when both read the document before either writes
\* and both return success, the user's final record is the record of the
\* call that wrote last, which holds that call's slot change and, for the
\* other call's slot, the value from before the race
C24_SameUserTogglesRace ==
    SameUserRace
        => LET w == q.writes[2]
           IN  RecordNow(q[w].userId)
                   = Merge(RecordBefore(q[w].userId), q[w].mealType :> ~q[w].isSkipping)

\* both calls returned success and the change of the one that wrote first
\* is gone from the record
C24_Witness ==
    /\ SameUserRace
    /\ LET f == q.writes[1]
       IN  /\ q[f].mealType \in DOMAIN RecordBefore(q[f].userId)
           /\ RecordBefore(q[f].userId)[q[f].mealType] = q[f].isSkipping
           /\ RecordNow(q[f].userId)[q[f].mealType] = q[f].isSkipping

\* C29: two concurrent toggleAttendance calls by different users on one day
\* both take effect in every interleaving: after both return success each
\* user's record is that user's record from before the race with the
\* targeted slot set to the value the user chose, and every other user's
\* record and every other field of the document are as before
C29_DifferentUsersBothTakeEffect ==
    (BothToggled /\ q.A.userId # q.B.userId)
        => LET docId == getDayId(q.mealId, env.tz)
           IN  /\ \A c \in Calls :
                      RecordNow(q[c].userId)
                          = Merge(RecordBefore(q[c].userId),
                                  q[c].mealType :> ~q[c].isSkipping)
               /\ DOMAIN store[docId].attendance
                      = {q.A.userId, q.B.userId}
                        \cup (IF "attendance" \in DOMAIN q.pre[docId]
                              THEN DOMAIN q.pre[docId].attendance ELSE {})
               /\ Without(store[docId], {"attendance"})
                      = Without(q.pre[docId], {"attendance"})
               /\ \A k \in DOMAIN q.pre \ {docId} : store[k] = q.pre[k]

\* both users changed a slot on a day without any record, each reading the
\* document before the other wrote
C29_Witness ==
    /\ BothToggled
    /\ q.A.userId # q.B.userId
    /\ \A c \in Calls : q[c].readAt = 0 /\ q[c].isSkipping
    /\ "attendance" \notin DOMAIN q.pre[getDayId(q.mealId, env.tz)]
    /\ \A c \in Calls : ~RecordNow(q[c].userId)[q[c].mealType]

(***************************************************************************)
(* SpecCard: the day view.  A day is looked up and the id of the document  *)
(* returned is what the card and the dialogs pass to update,               *)
(* toggleAttendance and assignResponsibility.                              *)
(***************************************************************************)
MaxCardOps == 2

\* a document is on display: the last call was a lookup that found one
Shown == last.op = "get" /\ last.ret.found

UpdateShown ==
    /\ Shown
    /\ \E updates \in Patches, fault \in {"none", "write"} :
           Op("update", [mealId |-> last.ret.doc.id, updates |-> updates, fault |-> fault],
              updateMeal(store, last.ret.doc.id, updates, env.tz, clock + 1, fault),
              TRUE, MaxCardOps)

ToggleShown ==
    /\ Shown
    /\ \E mealType \in MealTypes, userId \in Users, isSkipping \in BOOLEAN,
          fault \in Faults :
           Op("toggle", [mealId |-> last.ret.doc.id, mealType |-> mealType,
                         userId |-> userId, isSkipping |-> isSkipping, fault |-> fault],
              toggleMealAttendance(store, last.ret.doc.id, mealType, userId, isSkipping,
                                   env.tz, fault),
              TRUE, MaxCardOps)

AssignShown ==
    /\ Shown
    /\ \E slot \in RespSlots, userId \in {"u1", Null, EmptyString},
          fault \in {"none", "write"} :
           Op("assign", [mealId |-> last.ret.doc.id, slot |-> slot, userId |-> userId,
                         fault |-> fault],
              updateMealResponsibility(store, last.ret.doc.id, slot, userId, env.tz, fault),
              TRUE, MaxCardOps)

NextCard ==
    \/ Get(TRUE, MaxCardOps)
    \/ UpdateShown
    \/ ToggleShown
    \/ AssignShown

SpecCard == Init /\ [][NextCard]_vars

\* C28: for every document returned by getByDate, also one found through
\* the unpadded-key fallback, update, toggleAttendance and
\* assignResponsibility called with the returned id act on that stored
\* document: the key they resolve is the key the document is stored under,
\* so that, the store rejecting nothing, the call succeeds and no other
\* document changes
C28_ReturnedIdNamesTheDocument ==
    (last.op \in {"update", "toggle", "assign"} /\ prev.op = "get")
        => LET id == prev.ret.doc.id
           IN  /\ getDayId(last.arg.mealId, env.tz) = id
               /\ last.arg.fault = "none" => last.ret
               /\ \A k \in DOMAIN last.pre \ {id} : store[k] = last.pre[k]

(***************************************************************************)
(* SpecCollide: migrations of stores in which two documents hold the same  *)
(* day of the month: a document still under its legacy key (the full date, *)
(* or the unpadded day) next to one already under the padded day.          *)
(***************************************************************************)
MaxCollideOps == 2

CollideDocs ==
    (Iso(2025, 1, 31) :> Merge(BaseDoc(Iso(2025, 1, 31), "Friday", "a"),
                               [attendance |-> ("u1" :> [breakfast |-> TRUE, lunch |-> FALSE,
                                                         dinner |-> TRUE])]))
    @@ (D2(31) :> BaseDoc(Iso(2026, 1, 31), "Saturday", "b"))
    @@ (<<"5">> :> Merge(BaseDoc(Iso(2025, 12, 5), "Friday", "c"),
                         [responsibility |-> [dinnerId |-> "u2"]]))
    @@ (D2(5) :> Merge(BaseDoc(Iso(2026, 1, 5), "Monday", "d"),
                       [attendance |-> ("u2" :> [breakfast |-> FALSE, lunch |-> TRUE,
                                                 dinner |-> TRUE])]))
    @@ (D2(1) :> BaseDoc(Iso(2026, 1, 1), "Thursday", "e"))

InitCollide ==
    /\ \E keys \in SUBSET DOMAIN CollideDocs : store = [k \in keys |-> CollideDocs[k]]
    /\ clock = 0
    /\ \E month \in {0, 1}, tz \in TZs : env = [year |-> 2026, month |-> month, tz |-> tz]
    /\ last = NoOp
    /\ prev = NoOp
    /\ q = EmptyMap

NextCollide == Migrate(TRUE, MaxCollideOps)

SpecCollide == InitCollide /\ [][NextCollide]_vars

\* the fields the migration sets itself in every document it writes
Rewritten == {"date", "day_of_week", "updated_at", "created_at"}

\* the source documents of the last migration whose new key is newKey
SourcesOf(newKey) ==
    {k \in DOMAIN last.pre :
        DayOfDate(last.pre[k]) # 0 /\ D2(DayOfDate(last.pre[k])) = newKey}

\* C26: when two source documents map to the same new key in one migration,
\* the document at that key after the commit holds exactly the fields of
\* the source document that comes later in scan order, whichever of the two
\* had the new key as its id (the fields the migration sets itself apart)
C26_LaterSourceWins ==
    (last.op = "migrate" /\ last.ret.success)
        => \A newKey \in {D2(5), D2(31)} :
               ( /\ Cardinality(SourcesOf(newKey)) = 2
                 /\ newKey \in DOMAIN last.pre => newKey \in SourcesOf(newKey) )
                   => LET later == CHOOSE k \in SourcesOf(newKey) :
                                       \A o \in SourcesOf(newKey) \ {k} : StrLess(o, k)
                      IN  /\ newKey \in DOMAIN store
                          /\ Without(store[newKey], Rewritten)
                                 = Without(last.pre[later], Rewritten)

(***************************************************************************)
(* SpecMigRace: a migration in progress next to other calls.  The          *)
(* migration is two steps, the scan (the await of getAllMeals) and the     *)
(* commit of the batch built from what the scan returned; a lookup is one  *)
(* step per getDoc; update, toggleAttendance and assignResponsibility run  *)
(* between the scan and the commit.                                        *)
(***************************************************************************)
MaxDuringOps == 1  \* calls between the scan and the commit

\* a day under its padded key with both ledgers in use, a day under a
\* legacy unpadded key, and a day under its padded key without ledgers
RaceDocs ==
    (D2(5) :> SeedDocs[D2(5)])
    @@ (<<"6">> :> SeedDocs[<<"6">>])
    @@ (D2(7) :> BaseDoc(Iso(2026, 1, 7), "Wednesday", "g"))

\* the dates looked up, as the day view passes them
LookupDates == {D2(5), D2(6)}

\* the ids the cards and dialogs pass while the migration runs
DuringKeys == {<<"5">>, D2(7)}

InitMigRace ==
    /\ \E keys \in SUBSET DOMAIN RaceDocs : store = [k \in keys |-> RaceDocs[k]]
    /\ clock = 0
    /\ env = [year |-> 2026, month |-> 0, tz |-> 0]
    /\ last = NoOp
    /\ prev = NoOp
    /\ \E date \in LookupDates, lf \in {"none", "read", "read2"}, mf \in Faults :
          q = [pre  |-> store,
               mig  |-> [pc |-> "start", fault |-> mf, meals |-> <<>>, ret |-> EmptyMap],
               look |-> [pc |-> "start", fault |-> lf, date |-> date, first |-> "none",
                         second |-> "none", ret |-> NotFound]]

\* lines 304-309: the scan; an empty scan ends the migration
MigScan ==
    /\ q.mig.pc = "start"
    /\ LET meals == getAllMeals(store, clock + 1, q.mig.fault)
       IN  q' = IF Len(meals) = 0
                THEN [q EXCEPT !.mig.pc = "done",
                               !.mig.ret = [success |-> FALSE, updated |-> 0,
                                            error |-> "No meals found in database"]]
                ELSE [q EXCEPT !.mig.pc = "scanned", !.mig.meals = meals]
    /\ UNCHANGED <<store, clock, env, last, prev>>

\* lines 311-385: the batch is built from the scanned documents and committed
MigCommit ==
    /\ q.mig.pc = "scanned"
    /\ LET b == MigrateBatch(q.mig.meals, env.year, env.month, env.tz, clock + 1)
           c == commit(store, b.writes, q.mig.fault = "write")
       IN  /\ store' = IF c.ok THEN c.store ELSE store
           /\ q' = [q EXCEPT !.mig.pc = "done",
                             !.mig.ret =
                                 IF c.ok
                                 THEN [success |-> TRUE, updated |-> b.updatedCount,
                                       error |-> "none"]
                                 ELSE [success |-> FALSE, updated |-> 0,
                                       error |-> "commit rejected"]]
    /\ UNCHANGED <<clock, env, last, prev>>

\* lines 47-64: the getDoc of the padded key
LookupFirst ==
    /\ q.look.pc = "start"
    /\ LET docId      == getDayId(q.look.date, env.tz)
           unpaddedId == NumToString(ParseInt(docId))
       IN  q' = IF q.look.fault = "read"
                THEN [q EXCEPT !.look.pc = "done", !.look.ret = NotFound]
                ELSE IF exists(store, docId)
                THEN [q EXCEPT !.look.pc = "done", !.look.first = q.mig.pc,
                               !.look.ret = Found(docId, store[docId], clock + 1)]
                ELSE IF unpaddedId # docId
                THEN [q EXCEPT !.look.pc = "fallback", !.look.first = q.mig.pc]
                ELSE [q EXCEPT !.look.pc = "done", !.look.first = q.mig.pc,
                               !.look.ret = NotFound]
    /\ UNCHANGED <<store, clock, env, last, prev>>

\* lines 66-86: the getDoc of the unpadded key
LookupFallback ==
    /\ q.look.pc = "fallback"
    /\ LET unpaddedId == NumToString(ParseInt(getDayId(q.look.date, env.tz)))
       IN  q' = IF q.look.fault = "read2"
                THEN [q EXCEPT !.look.pc = "done", !.look.ret = NotFound]
                ELSE [q EXCEPT !.look.pc = "done", !.look.second = q.mig.pc,
                               !.look.ret =
                                   IF exists(store, unpaddedId)
                                   THEN Found(unpaddedId, store[unpaddedId], clock + 1)
                                   ELSE NotFound]
    /\ UNCHANGED <<store, clock, env, last, prev>>

ToggleDuring ==
    /\ q.mig.pc = "scanned"
    /\ \E mealId \in DuringKeys, mealType \in MealTypes, userId \in Users,
          isSkipping \in BOOLEAN, fault \in {"none", "write"} :
           Op("toggle", [mealId |-> mealId, mealType |-> mealType, userId |-> userId,
                         isSkipping |-> isSkipping, fault |-> fault],
              toggleMealAttendance(store, mealId, mealType, userId, isSkipping, env.tz,
                                   fault),
              FALSE, MaxDuringOps)

AssignDuring ==
    /\ q.mig.pc = "scanned"
    /\ \E mealId \in DuringKeys, slot \in RespSlots, userId \in {"u2", EmptyString},
          fault \in {"none", "write"} :
           Op("assign", [mealId |-> mealId, slot |-> slot, userId |-> userId,
                         fault |-> fault],
              updateMealResponsibility(store, mealId, slot, userId, env.tz, fault),
              FALSE, MaxDuringOps)

UpdateDuring ==
    /\ q.mig.pc = "scanned"
    /\ \E mealId \in DuringKeys, updates \in {p \in Patches : "date" \notin DOMAIN p},
          fault \in {"none", "write"} :
           Op("update", [mealId |-> mealId, updates |-> updates, fault |-> fault],
              updateMeal(store, mealId, updates, env.tz, clock + 1, fault),
              FALSE, MaxDuringOps)

NextMigRace ==
    \/ MigScan
    \/ MigCommit
    \/ LookupFirst
    \/ LookupFallback
    \/ ToggleDuring
    \/ AssignDuring
    \/ UpdateDuring

SpecMigRace == InitMigRace /\ [][NextMigRace]_vars

\* the lookup read the padded key before the commit of a successful
\* migration and the unpadded key after it, and the day's document was
\* under the unpadded key when the migration started
LookupAcrossCommit ==
    /\ q.look.pc = "done"
    /\ q.look.fault = "none"
    /\ q.look.first \in {"start", "scanned"}
    /\ q.look.second = "done"
    /\ q.mig.ret.success
    /\ getMealByDate(q.pre, q.look.date, env.tz, 0, "none").found

\* C25: while a migration that changes a document's key is running, a
\* lookup of that day returns NotFound although a document for the day is
\* in the store before the migration and after its commit: the lookup that
\* reads the padded key before the commit and the unpadded key after it
\* finds neither, and the same lookup made after the commit finds the day
C25_LookupMissesMovingDay ==
    LookupAcrossCommit
        => /\ ~q.look.ret.found
           /\ getMealByDate(store, q.look.date, env.tz, 0, "none").found

C25_Witness ==
    /\ LookupAcrossCommit
    /\ q.look.date = D2(6)
    /\ DOMAIN q.pre = {<<"6">>}
    /\ DOMAIN store = {D2(6)}
    /\ q.look.ret = NotFound

\* the change a successful call made is in the document (after a migration,
\* the document of the same day)
Reflected(call, data) ==
    IF call.op = "toggle"
    THEN /\ "attendance" \in DOMAIN data
         /\ call.arg.userId \in DOMAIN data.attendance
         /\ call.arg.mealType \in DOMAIN data.attendance[call.arg.userId]
         /\ data.attendance[call.arg.userId][call.arg.mealType] = ~call.arg.isSkipping
    ELSE IF call.op = "assign"
    THEN /\ "responsibility" \in DOMAIN data
         /\ call.arg.slot \in DOMAIN data.responsibility
         /\ data.responsibility[call.arg.slot] = OrElse(call.arg.userId, Null)
    ELSE \A f \in DOMAIN call.arg.updates :
             f \in DOMAIN data /\ data[f] = call.arg.updates[f]

\* C27: no successful mutation is lost to a migration: a toggleAttendance,
\* assignResponsibility or update that returns success after the migration
\* has scanned the documents and before it commits is reflected in the
\* stored document of that day after the commit
C27_NoMutationLostToMigration ==
    ( /\ q.mig.pc = "done" /\ q.mig.ret.success
      /\ last.op \in {"toggle", "assign", "update"} /\ last.ret = TRUE )
        => LET docId == getDayId(last.arg.mealId, env.tz)
               day   == D2(DayOfDate(last.pre[docId]))
           IN  day \in DOMAIN store /\ Reflected(last, store[day])

====
